---- MODULE Spec2Model ----
(***************************************************************************)
(* Valuation API of finatext-intern-coding-test (server.go):               *)
(*   GET /{user_id}/trades, GET /{user_id}/assets, GET /{user_id}/assets/  *)
(*   byYear over the two MySQL tables trade_histories and reference_prices.*)
(*                                                                         *)
(* Money is computed by the program in IEEE-754 binary64 (Go float64 and   *)
(* MySQL DOUBLE).  binary64 is modelled bit-exactly: a float is a sign,    *)
(* a 53-bit mantissa and a binary exponent, and every operation rounds to  *)
(* nearest, ties to even.  Mantissas exceed the range of 32-bit integers,   *)
(* so they are kept as little-endian sequences of limbs.                   *)
(***************************************************************************)
EXTENDS Integers, Sequences, FiniteSets, TLC

(***************************************************************************)
(* Natural numbers of arbitrary size: little-endian limbs in base 2^10,    *)
(* no high zero limb; zero is the empty sequence.                          *)
(***************************************************************************)
LimbBits == 10
LimbBase == 2 ^ LimbBits

Max(a, b) == IF a >= b THEN a ELSE b
Abs(n) == IF n < 0 THEN -n ELSE n
Sign(n) == IF n < 0 THEN -1 ELSE 1

RECURSIVE BitLenInt(_)
BitLenInt(n) == IF n = 0 THEN 0 ELSE 1 + BitLenInt(n \div 2)

RECURSIVE BNorm(_)
BNorm(a) ==
    IF a = <<>> THEN <<>>
    ELSE IF a[Len(a)] = 0 THEN BNorm(SubSeq(a, 1, Len(a) - 1))
    ELSE a

RECURSIVE BFromInt(_)
BFromInt(n) ==
    IF n = 0 THEN <<>> ELSE <<n % LimbBase>> \o BFromInt(n \div LimbBase)

RECURSIVE BToInt(_)
BToInt(a) == IF a = <<>> THEN 0 ELSE Head(a) + LimbBase * BToInt(Tail(a))

BBitLen(a) ==
    IF a = <<>> THEN 0 ELSE LimbBits * (Len(a) - 1) + BitLenInt(a[Len(a)])

BOdd(a) == a # <<>> /\ Head(a) % 2 = 1

RECURSIVE BMulCarry(_, _, _)
BMulCarry(a, k, c) ==
    IF a = <<>> THEN BFromInt(c)
    ELSE LET t == Head(a) * k + c
         IN  <<t % LimbBase>> \o BMulCarry(Tail(a), k, t \div LimbBase)

\* a * k for 0 <= k < 2^20
BMulSmall(a, k) == BNorm(BMulCarry(a, k, 0))

\* quotient (not normalised) and remainder of a by d, 0 < d < 2^20
RECURSIVE BDivRec(_, _)
BDivRec(a, d) ==
    IF a = <<>> THEN [q |-> <<>>, r |-> 0]
    ELSE LET hi  == BDivRec(Tail(a), d)
             cur == hi.r * LimbBase + Head(a)
         IN  [q |-> <<cur \div d>> \o hi.q, r |-> cur % d]

BDivSmall(a, d) == LET x == BDivRec(a, d) IN [q |-> BNorm(x.q), r |-> x.r]

BZeros(n) == [i \in 1..n |-> 0]

\* a * 2^s
BShl(a, s) ==
    IF a = <<>> THEN <<>>
    ELSE BZeros(s \div LimbBits) \o BMulSmall(a, 2 ^ (s % LimbBits))

\* a \div 2^s, and whether a nonzero bit was shifted out
BShr(a, s) ==
    LET k    == s \div LimbBits
        low  == SubSeq(a, 1, IF k < Len(a) THEN k ELSE Len(a))
        rest == IF k < Len(a) THEN SubSeq(a, k + 1, Len(a)) ELSE <<>>
        x    == BDivSmall(rest, 2 ^ (s % LimbBits))
    IN  [q |-> x.q, sticky |-> (\E i \in 1..Len(low) : low[i] # 0) \/ x.r # 0]

RECURSIVE BAddCarry(_, _, _)
BAddCarry(a, b, c) ==
    IF a = <<>> /\ b = <<>> THEN (IF c = 0 THEN <<>> ELSE <<c>>)
    ELSE LET x == IF a = <<>> THEN 0 ELSE Head(a)
             y == IF b = <<>> THEN 0 ELSE Head(b)
             t == x + y + c
         IN  <<t % LimbBase>>
               \o BAddCarry(IF a = <<>> THEN <<>> ELSE Tail(a),
                            IF b = <<>> THEN <<>> ELSE Tail(b),
                            t \div LimbBase)

BAdd(a, b) == BAddCarry(a, b, 0)

\* a - b for a >= b
RECURSIVE BSubBorrow(_, _, _)
BSubBorrow(a, b, c) ==
    IF a = <<>> THEN <<>>
    ELSE LET y == IF b = <<>> THEN 0 ELSE Head(b)
             t == Head(a) - y - c
         IN  <<t % LimbBase>>
               \o BSubBorrow(Tail(a), IF b = <<>> THEN <<>> ELSE Tail(b),
                             IF t < 0 THEN 1 ELSE 0)

BSub(a, b) == BNorm(BSubBorrow(a, b, 0))

\* a < b
RECURSIVE BLess(_, _)
BLess(a, b) ==
    IF Len(a) # Len(b) THEN Len(a) < Len(b)
    ELSE IF a = <<>> THEN FALSE
    ELSE IF a[Len(a)] # b[Len(b)] THEN a[Len(a)] < b[Len(b)]
    ELSE BLess(SubSeq(a, 1, Len(a) - 1), SubSeq(b, 1, Len(b) - 1))

(***************************************************************************)
(* binary64.  A float is [sgn, m, e] with value sgn * m * 2^e, where m is  *)
(* zero or has exactly MantBits bits.  The values of the model stay far    *)
(* inside the normal range, so subnormals, infinities and NaN do not       *)
(* occur.                                                                  *)
(***************************************************************************)
MantBits == 53

FZero == [sgn |-> 1, m |-> <<>>, e |-> 0]

\* The float nearest to sgn * (n / d) * 2^e, ties to even (n big, 0 < d < 2^20).
\* n is scaled so that the quotient q by d has at least MantBits + 2 bits;
\* the bits of q below the mantissa, with the remainder, decide the rounding.
RoundUp(sgn, m1, e) ==
    IF BBitLen(m1) > MantBits
    THEN [sgn |-> sgn, m |-> BDivSmall(m1, 2).q, e |-> e + 1]
    ELSE [sgn |-> sgn, m |-> m1, e |-> e]

\* m2 holds the mantissa and, as its lowest bit, the guard bit
RoundGuard(sgn, m2, sticky, e) ==
    IF BOdd(m2) /\ (sticky \/ BOdd(BDivSmall(m2, 2).q))
    THEN RoundUp(sgn, BAdd(BDivSmall(m2, 2).q, <<1>>), e)
    ELSE RoundUp(sgn, BDivSmall(m2, 2).q, e)

RoundShifted(sgn, sh, inexact, e) ==
    RoundGuard(sgn, sh.q, sh.sticky \/ inexact, e)

RoundQuotient(sgn, dv, e) ==
    RoundShifted(sgn, BShr(dv.q, BBitLen(dv.q) - MantBits - 1), dv.r # 0,
                 e + (BBitLen(dv.q) - MantBits))

RoundScaled(sgn, n, d, e, s) ==
    RoundQuotient(sgn, BDivSmall(BShl(n, s), d), e - s)

RoundRat(sgn, n, d, e) ==
    IF n = <<>> THEN FZero
    ELSE RoundScaled(sgn, n, d, e,
                     Max(0, MantBits + 3 + BitLenInt(d) - BBitLen(n)))

FNeg(x) == IF x.m = <<>> THEN x ELSE [x EXCEPT !.sgn = -x.sgn]

\* sx * a * 2^e + sy * b * 2^e
FAddAligned(sx, a, sy, b, e) ==
    RoundRat(IF sx = sy \/ ~BLess(a, b) THEN sx ELSE sy,
             IF sx = sy THEN BAdd(a, b)
             ELSE IF BLess(a, b) THEN BSub(b, a) ELSE BSub(a, b),
             1, e)

FAddAt(x, y, e) == FAddAligned(x.sgn, BShl(x.m, x.e - e), y.sgn, BShl(y.m, y.e - e), e)

\* x + y
FAdd(x, y) ==
    IF x.m = <<>> THEN y
    ELSE IF y.m = <<>> THEN x
    ELSE FAddAt(x, y, IF x.e <= y.e THEN x.e ELSE y.e)

FSub(x, y) == FAdd(x, FNeg(y))

\* x * float64(q) for an integer q, |q| < 2^20 (exactly representable)
FMulInt(x, q) ==
    IF q = 0 THEN FZero
    ELSE RoundRat(x.sgn * Sign(q), BMulSmall(x.m, Abs(q)), 1, x.e)

\* x / float64(d) for an integer d, 0 < d < 2^20
FDivInt(x, d) == RoundRat(x.sgn, x.m, d, x.e)

\* the float nearest to the decimal n / 10^k given as an integer n and a
\* power of ten d = 10^k (strconv.ParseFloat, MySQL DECIMAL -> DOUBLE)
FFromDecimal(n, d) == RoundRat(Sign(n), BFromInt(Abs(n)), d, 0)

\* int64(math.Floor(x))
FFloor(x) ==
    IF x.m = <<>> THEN 0
    ELSE IF x.e >= 0 THEN x.sgn * BToInt(BShl(x.m, x.e))
    ELSE LET sh == BShr(x.m, -x.e)
             q  == BToInt(sh.q)
         IN  IF x.sgn = 1 THEN q
             ELSE IF sh.sticky THEN -(q + 1) ELSE -q

(***************************************************************************)
(* Calendar dates.  A DATE is the integer yyyymmdd, so that the order of   *)
(* dates is the order of integers and YEAR() is a division.  The text form *)
(* "2006-01-02" is a sequence of one-character strings.                    *)
(***************************************************************************)
Digits == <<"0", "1", "2", "3", "4", "5", "6", "7", "8", "9">>

IsDigit(c) == \E i \in 1..10 : Digits[i] = c

DigitVal(c) == (CHOOSE i \in 1..10 : Digits[i] = c) - 1

IsLeap(y) == (y % 4 = 0 /\ y % 100 # 0) \/ y % 400 = 0

DaysIn(y, m) ==
    IF m = 2 THEN (IF IsLeap(y) THEN 29 ELSE 28)
    ELSE IF m \in {4, 6, 9, 11} THEN 30 ELSE 31

\* a parse that takes any two digits for a month and for a day
ParseDateUnchecked(s) ==
    IF /\ Len(s) = 10
       /\ s[5] = "-" /\ s[8] = "-"
       /\ \A i \in {1, 2, 3, 4, 6, 7, 9, 10} : IsDigit(s[i])
    THEN [ok |-> TRUE,
          date |-> 10000 * (1000 * DigitVal(s[1]) + 100 * DigitVal(s[2])
                              + 10 * DigitVal(s[3]) + DigitVal(s[4]))
                     + 100 * (10 * DigitVal(s[6]) + DigitVal(s[7]))
                     + 10 * DigitVal(s[9]) + DigitVal(s[10])]
    ELSE [ok |-> FALSE, date |-> 0]

\* time.Parse("2006-01-02", s)
ParseDate(s) ==
    IF /\ Len(s) = 10
       /\ s[5] = "-" /\ s[8] = "-"
       /\ \A i \in {1, 2, 3, 4, 6, 7, 9, 10} : IsDigit(s[i])
    THEN LET y == 1000 * DigitVal(s[1]) + 100 * DigitVal(s[2])
                    + 10 * DigitVal(s[3]) + DigitVal(s[4])
             m == 10 * DigitVal(s[6]) + DigitVal(s[7])
             d == 10 * DigitVal(s[9]) + DigitVal(s[10])
         IN  IF m >= 1 /\ m <= 12 /\ d >= 1 /\ d <= DaysIn(y, m)
             THEN [ok |-> TRUE, date |-> 10000 * y + 100 * m + d]
             ELSE [ok |-> FALSE, date |-> 0]
    ELSE [ok |-> FALSE, date |-> 0]

\* t.Format("2006-01-02")
FormatDate(t) ==
    LET y == t \div 10000
        m == (t \div 100) % 100
        d == t % 100
        D(n) == Digits[n + 1]
    IN  <<D(y \div 1000), D((y \div 100) % 10), D((y \div 10) % 10), D(y % 10),
          "-", D(m \div 10), D(m % 10), "-", D(d \div 10), D(d % 10)>>

\* YEAR(th.trade_date)
YearOf(t) == t \div 10000

(***************************************************************************)
(* The two tables.  A trade row is [user_id, fund_id, quantity,            *)
(* trade_date]; a price row is [fund_id, price, price_date] with the       *)
(* DECIMAL(10,2) price held as its integer number of hundredths.           *)
(***************************************************************************)
UNIT_PER_PRICE_BASE == 10000
PriceScale == 100

Users == {"u1", "u2"}
Funds == {1, 2}

\* the rows a trade_history.csv may hold: a buy of fund 1, a buy of fund 2
\* in 2023, its full sale or a second buy on one day of 2024 (one primary
\* key), and a trade of another user
TradeRows ==
    { [user_id |-> "u1", fund_id |-> 1, quantity |-> 20000, trade_date |-> 20240110],
      [user_id |-> "u1", fund_id |-> 2, quantity |-> 100000, trade_date |-> 20230601],
      [user_id |-> "u1", fund_id |-> 2, quantity |-> -100000, trade_date |-> 20240201],
      [user_id |-> "u1", fund_id |-> 2, quantity |-> 10000, trade_date |-> 20240201],
      [user_id |-> "u2", fund_id |-> 1, quantity |-> 5000, trade_date |-> 20240601] }

\* the rows a reference_prices.csv may hold: 100.00, 110.00, 2.30, 99.99
PriceRows ==
    { [fund_id |-> 1, price |-> 10000, price_date |-> 20240110],
      [fund_id |-> 1, price |-> 11000, price_date |-> 20240601],
      [fund_id |-> 2, price |-> 230, price_date |-> 20230601],
      [fund_id |-> 2, price |-> 9999, price_date |-> 20240201] }

MaxTrades == 3
MaxPrices == 3

\* PRIMARY KEY (user_id, fund_id, trade_date)
TradeKey(t) == <<t.user_id, t.fund_id, t.trade_date>>

\* PRIMARY KEY (fund_id, price_date)
PriceKey(p) == <<p.fund_id, p.price_date>>

(***************************************************************************)
(* The aggregate query of getAssetsHandler and getAssetsByYearHandler:     *)
(*   FROM trade_histories th JOIN reference_prices rp_buy                  *)
(*     ON th.fund_id = rp_buy.fund_id AND th.trade_date = rp_buy.price_date*)
(*   WHERE th.user_id = ? AND th.trade_date <= ?                           *)
(*   GROUP BY ... HAVING total_quantity > 0                                *)
(***************************************************************************)
\* a join that pairs a trade with every price of its fund
BuyPricesAnyDate(P, t) == {p \in P : t.fund_id = p.fund_id}

\* rp_buy of a trade row: the price rows the ON clause pairs it with
BuyPrices(P, t) ==
    {p \in P : t.fund_id = p.fund_id /\ t.trade_date = p.price_date}

\* the trades of a user at any date
TradesOfUser(T, userID, date) == {x \in T : x.user_id = userID}

\* WHERE th.user_id = ? AND th.trade_date <= ?
TradesUntil(T, userID, date) ==
    {x \in T : x.user_id = userID /\ x.trade_date <= date}

\* the joined rows that pass the WHERE clause: a trade with its rp_buy.price
JoinedRows(T, P, userID, date) ==
    UNION { { [th |-> t, price |-> p.price] : p \in BuyPrices(P, t) } :
            t \in TradesUntil(T, userID, date) }

\* the rows of one group in primary-key order (ascending trade_date), the
\* order in which SUM() meets them
RECURSIVE ByTradeDate(_)
ByTradeDate(J) ==
    IF J = {} THEN <<>>
    ELSE LET first == CHOOSE j \in J :
                        \A k \in J : j.th.trade_date <= k.th.trade_date
         IN  <<first>> \o ByTradeDate(J \ {first})

\* SUM(th.quantity)
RECURSIVE SumQuantity(_)
SumQuantity(js) ==
    IF js = <<>> THEN 0 ELSE Head(js).th.quantity + SumQuantity(Tail(js))

\* a buy cost term that is not divided by the units per price base
BuyCostTermUnscaled(j) == FFromDecimal(j.th.quantity * j.price, PriceScale)

\* th.quantity * rp_buy.price / ? : the exact DECIMAL product, converted to
\* DOUBLE and divided by the DOUBLE parameter float64(UNIT_PER_PRICE_BASE)
BuyCostTerm(j) ==
    FDivInt(FFromDecimal(j.th.quantity * j.price, PriceScale),
            UNIT_PER_PRICE_BASE)

\* SUM(th.quantity * rp_buy.price / ?)
RECURSIVE SumBuyCost(_, _)
SumBuyCost(js, acc) ==
    IF js = <<>> THEN acc
    ELSE SumBuyCost(Tail(js), FAdd(acc, BuyCostTerm(Head(js))))

\* the rows of the GROUP BY th.fund_id query of getAssetsHandler
PositionRows(T, P, userID, date) ==
    LET J    == JoinedRows(T, P, userID, date)
        G(f) == ByTradeDate({j \in J : j.th.fund_id = f})
    IN  { [fund_id        |-> f,
           total_quantity |-> SumQuantity(G(f)),
           total_buy_cost |-> SumBuyCost(G(f), FZero)] :
          f \in {g \in {j.th.fund_id : j \in J} : SumQuantity(G(g)) > 0} }

\* the rows of the GROUP BY trade_year, th.fund_id query of
\* getAssetsByYearHandler
YearlyRows(T, P, userID, date) ==
    LET J    == JoinedRows(T, P, userID, date)
        G(k) == ByTradeDate({j \in J : /\ YearOf(j.th.trade_date) = k[1]
                                       /\ j.th.fund_id = k[2]})
    IN  { [trade_year     |-> k[1],
           fund_id        |-> k[2],
           total_quantity |-> SumQuantity(G(k)),
           total_buy_cost |-> SumBuyCost(G(k), FZero)] :
          k \in {g \in {<<YearOf(j.th.trade_date), j.th.fund_id>> : j \in J} :
                   SumQuantity(G(g)) > 0} }

\* a resolver that looks ahead: the latest price of the fund at any date
LatestPriceLookAhead(P, fundID, date) ==
    LET C == {p \in P : p.fund_id = fundID}
    IN  IF C = {} THEN [found |-> FALSE, price |-> 0]
        ELSE [found |-> TRUE,
              price |-> (CHOOSE p \in C :
                           \A q \in C : q.price_date <= p.price_date).price]

\* SELECT price FROM reference_prices WHERE fund_id = ? AND price_date <= ?
\* ORDER BY price_date DESC LIMIT 1
LatestPrice(P, fundID, date) ==
    LET C == {p \in P : p.fund_id = fundID /\ p.price_date <= date}
    IN  IF C = {} THEN [found |-> FALSE, price |-> 0]
        ELSE [found |-> TRUE,
              price |-> (CHOOSE p \in C :
                           \A q \in C : q.price_date <= p.price_date).price]

\* a count of the trades of every user
CountAllTrades(T, userID) == Cardinality(T)

\* SELECT COUNT(*) FROM trade_histories WHERE user_id = ?
CountTrades(T, userID) == Cardinality({t \in T : t.user_id = userID})

(***************************************************************************)
(* Store failures.  At most one call of a request fails:                   *)
(*   query  db.Query / db.QueryRow of the first statement returns an error *)
(*   scan   rows.Scan fails on the at-th row                               *)
(*   iter   rows.Next() stops after `at` rows and rows.Err() is set        *)
(*   price  the price QueryRow for fund `at` returns an error that is not  *)
(*          sql.ErrNoRows                                                  *)
(***************************************************************************)
NoFault == [kind |-> "none", at |-> 0]

Faults(n, funds) ==
    {NoFault, [kind |-> "query", at |-> 0]}
      \cup {[kind |-> "scan", at |-> i] : i \in 1..n}
      \cup {[kind |-> "iter", at |-> k] : k \in 0..n}
      \cup {[kind |-> "price", at |-> f] : f \in funds}

\* the orders in which the elements of a finite set can be met
Orders(S) ==
    {s \in [1..Cardinality(S) -> S] :
       \A i, j \in 1..Cardinality(S) : i # j => s[i] # s[j]}

\* db.QueryRow(...).Scan(&currentPrice): the DECIMAL text parsed to float64
QueryPrice(P, fundID, date, failed) ==
    LET r == LatestPrice(P, fundID, date)
    IN  IF failed THEN [err |-> "error", price |-> FZero]
        ELSE IF ~r.found THEN [err |-> "ErrNoRows", price |-> FZero]
        ELSE [err |-> "", price |-> FFromDecimal(r.price, PriceScale)]

(***************************************************************************)
(* HTTP responses.                                                         *)
(***************************************************************************)
StatusOK == 200
StatusBadRequest == 400
StatusInternalServerError == 500

NoResponse ==
    [op |-> "none", user_id |-> "", status |-> 0, date |-> <<>>, count |-> 0,
     current_value |-> 0, current_pl |-> 0, assets |-> <<>>]

\* http.Error(w, ..., status)
HttpError(op, userID, status) ==
    [NoResponse EXCEPT !.op = op, !.user_id = userID, !.status = status]

NoLocals ==
    [dateStr |-> <<>>, targetDate |-> 0, fault |-> NoFault, rows |-> <<>>,
     positions |-> <<>>,
     order |-> <<>>, resolved |-> <<>>, yearlySummary |-> <<>>,
     priceCache |-> <<>>, yearlyAssets |-> <<>>]

(***************************************************************************)
(* getTradesCountHandler                                                   *)
(***************************************************************************)
TradesCountResult(T, userID, fault) ==
    IF fault.kind = "query"
    THEN HttpError("trades", userID, StatusInternalServerError)
    ELSE [NoResponse EXCEPT !.op = "trades", !.user_id = userID,
                            !.status = StatusOK,
                            !.count = CountTrades(T, userID)]

(***************************************************************************)
(* getAssetsHandler                                                        *)
(***************************************************************************)
\* the rows.Next() / rows.Scan loop: the indices of the rows that reach the map
ScannedIndices(n, fault) ==
    {i \in 1..(IF fault.kind = "iter" THEN fault.at ELSE n) :
       ~(fault.kind = "scan" /\ fault.at = i)}

\* positions[fundID] = Position{...}
PositionsMap(rowSeq, fault) ==
    LET I == ScannedIndices(Len(rowSeq), fault)
    IN  [f \in {rowSeq[i].fund_id : i \in I} |->
           LET row == CHOOSE r \in {rowSeq[i] : i \in I} : r.fund_id = f
           IN  [FundID        |-> row.fund_id,
                TotalQuantity |-> row.total_quantity,
                TotalBuyCost  |-> row.total_buy_cost]]

\* for _, pos := range positions { ... } in the iteration order `order`
RECURSIVE ValuationLoop(_, _, _, _, _, _)
ValuationLoop(order, positions, P, date, fault, acc) ==
    IF order = <<>> THEN acc
    ELSE LET pos == positions[Head(order)]
             r   == QueryPrice(P, pos.FundID, date,
                               fault.kind = "price" /\ fault.at = pos.FundID)
         IN  IF r.err # ""
             THEN ValuationLoop(Tail(order), positions, P, date, fault, acc)
             ELSE LET currentValue ==
                          FDivInt(FMulInt(r.price, pos.TotalQuantity),
                                  UNIT_PER_PRICE_BASE)
                  IN  ValuationLoop(Tail(order), positions, P, date, fault,
                        [totalCurrentValue |->
                             FAdd(acc.totalCurrentValue, currentValue),
                         totalBuyAmount |->
                             FAdd(acc.totalBuyAmount, pos.TotalBuyCost)])

\* json.NewEncoder(w).Encode(AssetData{...}) after the two math.Floor
AssetData(userID, targetDate, sums) ==
    [NoResponse EXCEPT
       !.op = "assets", !.user_id = userID, !.status = StatusOK,
       !.date = FormatDate(targetDate),
       !.current_value = FFloor(sums.totalCurrentValue),
       !.current_pl = FFloor(FSub(sums.totalCurrentValue,
                                  sums.totalBuyAmount))]

\* the handler from the aggregate query on, for a parsed target date
AssetsResult(T, P, userID, targetDate, rowSeq, fault, order) ==
    IF fault.kind = "query"
    THEN [resp  |-> HttpError("assets", userID, StatusInternalServerError),
          local |-> [NoLocals EXCEPT !.targetDate = targetDate,
                                     !.fault = fault]]
    ELSE LET positions == PositionsMap(rowSeq, fault)
             sums == ValuationLoop(order, positions, P, targetDate, fault,
                        [totalCurrentValue |-> FZero, totalBuyAmount |-> FZero])
         IN  [resp |-> AssetData(userID, targetDate, sums),
              local |->
                [NoLocals EXCEPT
                   !.targetDate = targetDate, !.fault = fault, !.rows = rowSeq,
                   !.positions = positions, !.order = order,
                   !.resolved =
                     [f \in DOMAIN positions |->
                        QueryPrice(P, f, targetDate,
                                   fault.kind = "price" /\ fault.at = f)]]]

(***************************************************************************)
(* getAssetsByYearHandler                                                  *)
(***************************************************************************)
ZeroYearlyFundData == [CurrentValueSum |-> FZero, BuyAmountSum |-> FZero]

\* m[k] = v on a Go map held as a function
MapPut(m, k, v) == [x \in DOMAIN m \cup {k} |-> IF x = k THEN v ELSE m[x]]

\* for rows.Next() { ... } from row i on; st holds yearlySummary, priceCache
\* and whether the failing price query has already happened
RECURSIVE YearlyLoop(_, _, _, _, _, _)
YearlyLoop(rowSeq, i, P, date, fault, st) ==
    IF i > (IF fault.kind = "iter" THEN fault.at ELSE Len(rowSeq)) THEN st
    ELSE IF fault.kind = "scan" /\ fault.at = i
    THEN YearlyLoop(rowSeq, i + 1, P, date, fault, st)
    ELSE LET row    == rowSeq[i]
             ok     == row.fund_id \in DOMAIN st.priceCache
             failed == fault.kind = "price" /\ fault.at = row.fund_id
                         /\ ~st.priceFailed
             r      == IF ok
                       THEN [err |-> "", price |-> st.priceCache[row.fund_id]]
                       ELSE QueryPrice(P, row.fund_id, date, failed)
         IN  IF r.err # ""
             THEN YearlyLoop(rowSeq, i + 1, P, date, fault,
                             [st EXCEPT !.priceFailed = @ \/ failed])
             ELSE LET currentValueForFund ==
                          FDivInt(FMulInt(r.price, row.total_quantity),
                                  UNIT_PER_PRICE_BASE)
                      data == IF row.trade_year \in DOMAIN st.yearlySummary
                              THEN st.yearlySummary[row.trade_year]
                              ELSE ZeroYearlyFundData
                  IN  YearlyLoop(rowSeq, i + 1, P, date, fault,
                        [st EXCEPT
                           !.priceCache = MapPut(@, row.fund_id, r.price),
                           !.yearlySummary =
                             MapPut(@, row.trade_year,
                               [CurrentValueSum |->
                                  FAdd(data.CurrentValueSum, currentValueForFund),
                                BuyAmountSum |->
                                  FAdd(data.BuyAmountSum, row.total_buy_cost)])])

\* for year, data := range yearlySummary { yearlyAssets = append(...) }
AppendYears(order, yearlySummary) ==
    [i \in 1..Len(order) |->
       LET data == yearlySummary[order[i]]
       IN  [year          |-> order[i],
            current_value |-> FFloor(data.CurrentValueSum),
            current_pl    |-> FFloor(FSub(data.CurrentValueSum,
                                          data.BuyAmountSum))]]

\* a less function that orders the years ascending
YearLessAscending(a, b) == a.year < b.year

\* the less function handed to sort.Slice
YearLess(a, b) == a.year > b.year

\* sort.Slice(yearlyAssets, less)
RECURSIVE InsertSorted(_, _)
InsertSorted(x, s) ==
    IF s = <<>> THEN <<x>>
    ELSE IF YearLess(Head(s), x) THEN <<Head(s)>> \o InsertSorted(x, Tail(s))
    ELSE <<x>> \o s

RECURSIVE SortSlice(_)
SortSlice(s) ==
    IF s = <<>> THEN <<>> ELSE InsertSorted(Head(s), SortSlice(Tail(s)))

\* the loop state after for rows.Next()
YearlyState(P, currentDate, rowSeq, fault) ==
    YearlyLoop(rowSeq, 1, P, currentDate, fault,
               [yearlySummary |-> <<>>, priceCache |-> <<>>,
                priceFailed |-> FALSE])

\* sort.Slice and json.NewEncoder(w).Encode(AssetsByYearResponse{...})
AssetsByYearResponse(userID, currentDate, yearlyAssets) ==
    [NoResponse EXCEPT
       !.op = "byYear", !.user_id = userID, !.status = StatusOK,
       !.date = FormatDate(currentDate),
       !.assets = SortSlice(yearlyAssets)]

\* the handler after the loop, for the iteration order `order` of yearlySummary
AssetsByYearResult(P, userID, currentDate, rowSeq, fault, order) ==
    IF fault.kind = "query"
    THEN [resp  |-> HttpError("byYear", userID, StatusInternalServerError),
          local |-> [NoLocals EXCEPT !.targetDate = currentDate,
                                     !.fault = fault]]
    ELSE LET st == YearlyState(P, currentDate, rowSeq, fault)
             yearlyAssets == AppendYears(order, st.yearlySummary)
         IN  [resp |-> AssetsByYearResponse(userID, currentDate, yearlyAssets),
              local |->
                [NoLocals EXCEPT
                   !.targetDate = currentDate, !.fault = fault,
                   !.rows = rowSeq, !.order = order,
                   !.yearlySummary = st.yearlySummary,
                   !.priceCache = st.priceCache,
                   !.yearlyAssets = yearlyAssets]]

(***************************************************************************)
(* The state: the two tables, the response in flight to the client, and    *)
(* the locals of the handler that wrote it; reqs holds the goroutines of   *)
(* the requests that net/http serves concurrently, each with its locals.   *)
(***************************************************************************)
VARIABLES trades, prices, resp, local, reqs, boot, imp

vars == <<trades, prices, resp, local, reqs, boot, imp>>

\* the goroutines net/http runs handlers on at one time
Requests == {1, 2}

\* a goroutine that serves no request
IdleRequest ==
    [pc |-> "idle", op |-> "none", user_id |-> "", dateStr |-> <<>>,
     now |-> 0, rowSeq |-> <<>>, i |-> 0, positions |-> <<>>, order |-> <<>>,
     sums |-> [totalCurrentValue |-> FZero, totalBuyAmount |-> FZero],
     yearlySummary |-> <<>>, priceCache |-> <<>>, resp |-> NoResponse]

\* today's date of time.Now() at the requests of the model
Todays == {20240115, 20240601}

\* the values of the date query parameter: absent, well formed, malformed
DateParams ==
    {<<>>}
      \cup {FormatDate(d) : d \in {20230101, 20231231, 20240110, 20240201, 20240601}}
      \cup { <<"2", "0", "2", "4", "-", "1", "3", "-", "0", "1">>,
             <<"2", "0", "2", "4", "0", "1", "1", "0">>,
             <<"2", "0", "2", "3", "-", "0", "2", "-", "2", "9">> }

\* const DB_RETRY_ATTEMPTS = 10
DB_RETRY_ATTEMPTS == 10

\* main before its first statement.  i and err are the variables of main,
\* pings counts the db.Ping calls of the retry loop until the check that
\* follows it, alive tells whether a db.Ping has succeeded
Booting ==
    [pc |-> "open", i |-> 0, err |-> FALSE, pings |-> 0, alive |-> FALSE,
     fatal |-> FALSE]

\* main waiting for a signal while net/http serves the routes
Serving == [Booting EXCEPT !.pc = "serving", !.alive = TRUE]

\* the table import is not running
NoImport ==
    [pc |-> "none", table |-> "", file |-> <<>>, n |-> 0, tx |-> {},
     err |-> FALSE, ret |-> ""]

Init ==
    /\ trades = {}
    /\ prices = {}
    /\ resp = NoResponse
    /\ local = NoLocals
    /\ reqs = [id \in Requests |-> IdleRequest]
    /\ boot = Booting
    /\ imp = NoImport

\* log.Fatal, log.Fatalf: the process ends with status 1
Fatal == [Booting EXCEPT !.pc = "exited", !.fatal = TRUE]

\* the environment is read and sql.Open is called; a missing variable or a
\* failed open is fatal
OpenDatabase(ok) ==
    /\ boot.pc = "open"
    /\ boot' = IF ok THEN [boot EXCEPT !.pc = "ping"] ELSE Fatal
    /\ UNCHANGED <<trades, prices, resp, local, reqs, imp>>

\* a retry loop that is never found to have failed
DatabaseAssumedReady(b) == FALSE

\* if err != nil after the retry loop
DatabaseNotReady(b) == b.err

\* one turn of for i := 0; i < DB_RETRY_ATTEMPTS; i++: db.Ping, break on
\* success, the sleep and i++ on failure
PingDatabase(ok) ==
    /\ boot.pc = "ping"
    /\ boot.i < DB_RETRY_ATTEMPTS
    /\ boot' = IF ok
               THEN [boot EXCEPT !.pc = "pinged", !.err = FALSE,
                                 !.pings = @ + 1, !.alive = TRUE]
               ELSE [boot EXCEPT
                       !.pc = IF boot.i + 1 < DB_RETRY_ATTEMPTS
                              THEN "ping" ELSE "pinged",
                       !.i = @ + 1, !.err = TRUE, !.pings = @ + 1]
    /\ UNCHANGED <<trades, prices, resp, local, reqs, imp>>

\* the check after the retry loop: fatal when the last db.Ping failed
CheckDatabase ==
    /\ boot.pc = "pinged"
    /\ boot' = IF DatabaseNotReady(boot)
               THEN [Fatal EXCEPT !.alive = boot.alive]
               ELSE [boot EXCEPT !.pc = "setup", !.i = 0, !.pings = 0]
    /\ UNCHANGED <<trades, prices, resp, local, reqs, imp>>

\* setupDatabaseTables, then the routes are registered and ListenAndServe is
\* started; a failure of either is fatal
StartServer(ok) ==
    /\ boot.pc = "setup"
    /\ boot' = IF ok THEN [boot EXCEPT !.pc = "serving"]
               ELSE [Fatal EXCEPT !.alive = boot.alive]
    /\ UNCHANGED <<trades, prices, resp, local, reqs, imp>>

\* SIGINT or SIGTERM arrives: main returns and responses in flight are lost
Signal ==
    /\ boot.pc = "serving"
    /\ boot' = [boot EXCEPT !.pc = "exited"]
    /\ resp' = NoResponse
    /\ local' = NoLocals
    /\ UNCHANGED <<trades, prices, reqs, imp>>

\* the steps of main up to serving
Startup ==
    \/ \E ok \in BOOLEAN : OpenDatabase(ok)
    \/ \E ok \in BOOLEAN : PingDatabase(ok)
    \/ CheckDatabase
    \/ \E ok \in BOOLEAN : StartServer(ok)

\* one row of trade_history.csv reaches trade_histories (stmt.Exec); a second
\* row with the same primary key is rejected
InsertTrade(row) ==
    /\ Cardinality(trades) < MaxTrades
    /\ \A t \in trades : TradeKey(t) # TradeKey(row)
    /\ trades' = trades \cup {row}
    /\ UNCHANGED <<prices, resp, local, reqs, boot, imp>>

\* one row of reference_prices.csv reaches reference_prices
InsertPrice(row) ==
    /\ Cardinality(prices) < MaxPrices
    /\ \A p \in prices : PriceKey(p) # PriceKey(row)
    /\ prices' = prices \cup {row}
    /\ UNCHANGED <<trades, resp, local, reqs, boot, imp>>

getTradesCountHandler(userID) ==
    /\ boot.pc = "serving"
    /\ resp = NoResponse
    /\ \E fault \in Faults(0, {}) :
         resp' = TradesCountResult(trades, userID, fault)
    /\ local' = NoLocals
    /\ UNCHANGED <<trades, prices, reqs, boot, imp>>

getAssetsHandler(userID, dateStr) ==
    /\ boot.pc = "serving"
    /\ resp = NoResponse
    /\ UNCHANGED <<trades, prices, reqs, boot, imp>>
    /\ IF dateStr # <<>> /\ ~ParseDate(dateStr).ok
       THEN /\ resp' = HttpError("assets", userID, StatusBadRequest)
            /\ local' = [NoLocals EXCEPT !.dateStr = dateStr]
       ELSE \E now \in (IF dateStr # <<>> THEN {ParseDate(dateStr).date}
                                          ELSE Todays) :
            \E rowSeq \in Orders(PositionRows(trades, prices, userID, now)) :
            \E fault \in Faults(Len(rowSeq), {rowSeq[i].fund_id : i \in 1..Len(rowSeq)}) :
            \E order \in Orders(DOMAIN PositionsMap(rowSeq, fault)) :
              LET res == AssetsResult(trades, prices, userID, now, rowSeq,
                                      fault, order)
              IN  /\ resp' = res.resp
                  /\ local' = [res.local EXCEPT !.dateStr = dateStr]

getAssetsByYearHandler(userID) ==
    /\ boot.pc = "serving"
    /\ resp = NoResponse
    /\ UNCHANGED <<trades, prices, reqs, boot, imp>>
    /\ \E now \in Todays :
       \E rowSeq \in Orders(YearlyRows(trades, prices, userID, now)) :
       \E fault \in Faults(Len(rowSeq), {rowSeq[i].fund_id : i \in 1..Len(rowSeq)}) :
       \E order \in Orders(DOMAIN YearlyState(prices, now, rowSeq, fault).yearlySummary) :
         LET res == AssetsByYearResult(prices, userID, now, rowSeq, fault, order)
         IN  resp' = res.resp /\ local' = res.local

\* the client has read the response
Deliver ==
    /\ resp # NoResponse
    /\ resp' = NoResponse
    /\ local' = NoLocals
    /\ UNCHANGED <<trades, prices, reqs, boot, imp>>

Next ==
    \/ \E row \in TradeRows : InsertTrade(row)
    \/ \E row \in PriceRows : InsertPrice(row)
    \/ \E userID \in Users : getTradesCountHandler(userID)
    \/ \E userID \in Users, dateStr \in DateParams : getAssetsHandler(userID, dateStr)
    \/ \E userID \in Users : getAssetsByYearHandler(userID)
    \/ Deliver
    \/ Startup
    \/ Signal

Spec == Init /\ [][Next]_vars

\* main runs on: each of its calls returns
LiveSpec == Spec /\ WF_vars(Startup)

(***************************************************************************)
(* Properties.  A handler runs as one step from "no response in flight" to *)
(* its response; it leaves the tables as it read them, so the state after  *)
(* the step holds the tables the response was computed from.               *)
(***************************************************************************)
HandlerStep == resp = NoResponse /\ resp' # NoResponse

\* the response r, written by a handler with final locals l, answers
\* request `op` with 200, and no call to the store failed
Served(op, r, l) == r.op = op /\ r.status = StatusOK /\ l.fault = NoFault

\* the trade has a reference price of its fund on its own trade date
Priced(t) ==
    \E p \in prices : p.fund_id = t.fund_id /\ p.price_date = t.trade_date

\* the priced trades of a user in a fund up to a date
PricedTrades(userID, fundID, date) ==
    {t \in trades : /\ t.user_id = userID /\ t.fund_id = fundID
                    /\ t.trade_date <= date /\ Priced(t)}

\* the sum of the quantities of a set of trades
RECURSIVE SumQty(_)
SumQty(S) ==
    IF S = {} THEN 0
    ELSE LET t == CHOOSE x \in S : TRUE IN t.quantity + SumQty(S \ {t})

Range(s) == {s[i] : i \in 1..Len(s)}

\* C1: the total_quantity GET /{user_id}/assets uses for a fund is the sum
\* of the quantities of exactly the user's trades in the fund that are dated
\* on or before the target date and have a reference price on their own
\* trade date; every fund whose such sum is positive has a position; and
\* the rows of both aggregate queries are those of the ledger without its
\* unpriced trades (an unpriced trade is in no total_quantity and no
\* total_buy_cost).
C1Post(r, l) ==
    /\ Served("assets", r, l) =>
         /\ \A f \in DOMAIN l.positions :
              l.positions[f].TotalQuantity =
                SumQty(PricedTrades(r.user_id, f, l.targetDate))
         /\ DOMAIN l.positions =
              {f \in Funds :
                 SumQty(PricedTrades(r.user_id, f, l.targetDate)) > 0}
         /\ Range(l.rows) =
              PositionRows({t \in trades : Priced(t)}, prices, r.user_id,
                           l.targetDate)
    /\ Served("byYear", r, l) =>
         Range(l.rows) =
           YearlyRows({t \in trades : Priced(t)}, prices, r.user_id,
                      l.targetDate)

C1_PricedQuantity == [][HandlerStep => C1Post(resp', local')]_vars

\* a position of a fund in which the user also holds an unpriced trade
\* dated on or before the target date
C1_Witness ==
    /\ Served("assets", resp, local)
    /\ \E f \in DOMAIN local.positions :
       \E t \in trades :
         /\ t.user_id = resp.user_id /\ t.fund_id = f
         /\ t.trade_date <= local.targetDate /\ ~Priced(t)

\* the net priced quantity a user holds in a fund as of a date
NetQuantity(userID, fundID, date) ==
    SumQty(PricedTrades(userID, fundID, date))

\* C2: a fund whose net priced quantity as of the valuation date is <= 0
\* never appears in the output: GET /{user_id}/assets holds no position of
\* it, and no year entry of GET /{user_id}/assets/byYear takes a value from
\* it, also when it was bought in one calendar year and sold in a later one.
C2Post(r, l) ==
    /\ (r.op = "assets" /\ r.status = StatusOK) =>
         \A f \in DOMAIN l.positions :
           NetQuantity(r.user_id, f, l.targetDate) > 0
    /\ (r.op = "byYear" /\ r.status = StatusOK) =>
         \A f \in DOMAIN l.priceCache :
           NetQuantity(r.user_id, f, l.targetDate) > 0

C2_NonPositiveFundsAbsent == [][HandlerStep => C2Post(resp', local')]_vars

\* a fund bought in one year and fully sold in the next is valued in a year
\* entry of a fault-free /assets/byYear response
C2_SoldOutFundValued ==
    /\ Served("byYear", resp, local)
    /\ \E f \in DOMAIN local.priceCache :
         /\ NetQuantity(resp.user_id, f, local.targetDate) = 0
         /\ \E i \in 1..Len(local.rows) :
              /\ local.rows[i].fund_id = f
              /\ \E k \in 1..Len(resp.assets) :
                   /\ resp.assets[k].year = local.rows[i].trade_year
                   /\ resp.assets[k].current_value > 0

\* the reference-price records of a fund dated on or before a date
KnownPrices(fundID, date) ==
    {p \in prices : p.fund_id = fundID /\ p.price_date <= date}

\* x is the float64 of the price of the record of the fund with the greatest
\* price_date on or before the date
IsLatestKnownPrice(x, fundID, date) ==
    \E p \in KnownPrices(fundID, date) :
      /\ \A q \in KnownPrices(fundID, date) : q.price_date <= p.price_date
      /\ x = FFromDecimal(p.price, PriceScale)

\* the valuation dates of the requests
ValuationDates ==
    Todays \cup {ParseDate(s).date : s \in {x \in DateParams : ParseDate(x).ok}}

\* C3: the price resolved for a fund at a valuation date is the price of the
\* record of that fund with the greatest price_date <= the valuation date,
\* never that of a later record, and "no price available" (sql.ErrNoRows)
\* when the fund has no record on or before the date; this holds of the
\* price query on the stored prices for every fund and valuation date, and
\* of the prices the two handlers valued their positions with.
C3Post(r, l) ==
    /\ \A f \in Funds, d \in ValuationDates :
         LET res == QueryPrice(prices, f, d, FALSE)
         IN  IF KnownPrices(f, d) = {} THEN res.err = "ErrNoRows"
             ELSE res.err = "" /\ IsLatestKnownPrice(res.price, f, d)
    /\ Served("assets", r, l) =>
         \A f \in DOMAIN l.positions :
           /\ l.resolved[f].err = ""
           /\ IsLatestKnownPrice(l.resolved[f].price, f, l.targetDate)
    /\ Served("byYear", r, l) =>
         \A f \in DOMAIN l.priceCache :
           IsLatestKnownPrice(l.priceCache[f], f, l.targetDate)

C3_LatestPriceNoLookAhead == [][HandlerStep => C3Post(resp', local')]_vars

\* a position is valued while its fund has a record dated after the target
\* date and two records on or before it, and another fund has no record
C3_Witness ==
    /\ Served("assets", resp, local)
    /\ \E f \in DOMAIN local.positions :
         /\ \E p \in prices :
              p.fund_id = f /\ p.price_date > local.targetDate
         /\ \E g \in Funds : KnownPrices(g, local.targetDate) = {}
    /\ \E d \in ValuationDates, f \in Funds :
         Cardinality(KnownPrices(f, d)) >= 2

(***************************************************************************)
(* Exact amounts.  A price is an integer number of hundredths and a        *)
(* quantity an integer number of units, so price x quantity / 10000 is an  *)
(* integer number of MicroPerUnit-ths of the currency unit.                *)
(***************************************************************************)
MicroPerUnit == PriceScale * UNIT_PER_PRICE_BASE

\* the sum of the values of a function with a finite domain
RECURSIVE SumFn(_)
SumFn(fn) ==
    IF DOMAIN fn = {} THEN 0
    ELSE LET x == CHOOSE y \in DOMAIN fn : TRUE
         IN  fn[x] + SumFn([y \in DOMAIN fn \ {x} |-> fn[y]])

\* the price, in hundredths, of the latest record of a fund on or before a date
LatestCents(fundID, date) ==
    (CHOOSE p \in KnownPrices(fundID, date) :
       \A q \in KnownPrices(fundID, date) : q.price_date <= p.price_date).price

\* the price, in hundredths, a priced trade was made at
BuyCents(t) ==
    (CHOOSE p \in prices :
       p.fund_id = t.fund_id /\ p.price_date = t.trade_date).price

\* the exact buy cost of a set of priced trades
ExactCost(S) == SumFn([t \in S |-> t.quantity * BuyCents(t)])

\* the exact value at a date of the net priced quantities of a set of funds
ExactValue(F, userID, date) ==
    SumFn([f \in F |-> LatestCents(f, date) * NetQuantity(userID, f, date)])

\* the exact buy cost of the priced trades in a set of funds
ExactBuyAmount(F, userID, date) ==
    SumFn([f \in F |-> ExactCost(PricedTrades(userID, f, date))])

\* the funds of the positions whose price was resolved
Included(l) == {f \in DOMAIN l.positions : l.resolved[f].err = ""}

\* C4: when the price query of a position's fund yields no price in GET
\* /{user_id}/assets, the request is still answered with 200, current_value
\* is the (floored) sum of resolved price x total_quantity / 10000 over the
\* funds whose price was resolved, and current_pl is that sum less the buy
\* costs of exactly those funds.
C4Post(r, l) ==
    (r.op = "assets" /\ l.fault.kind = "price") =>
      /\ r.status = StatusOK
      /\ l.fault.at \notin Included(l)
      /\ r.current_value =
           ExactValue(Included(l), r.user_id, l.targetDate) \div MicroPerUnit
      /\ r.current_pl =
           (ExactValue(Included(l), r.user_id, l.targetDate)
              - ExactBuyAmount(Included(l), r.user_id, l.targetDate))
             \div MicroPerUnit

C4_UnresolvedFundExcluded == [][HandlerStep => C4Post(resp', local')]_vars

\* one of two positions is skipped and the response carries the other alone
C4_OneFundSkipped ==
    /\ resp.op = "assets" /\ resp.status = StatusOK
    /\ local.fault.kind = "price"
    /\ Cardinality(DOMAIN local.positions) = 2
    /\ Cardinality(Included(local)) = 1
    /\ resp.current_value > 0

\* the groups of an /assets/byYear year entry, as the handler read them
YearGroups(l, year) ==
    {i \in 1..Len(l.rows) : l.rows[i].trade_year = year}

\* the priced trades of a user in a fund that are dated in a year
YearTrades(userID, fundID, year, date) ==
    {t \in PricedTrades(userID, fundID, date) : YearOf(t.trade_date) = year}

\* C5: every current_value and current_pl of a fault-free /assets or
\* /assets/byYear response is the floor, toward negative infinity, of the
\* exact aggregate: floor(value) and floor(value - buy cost).
C5Post(r, l) ==
    /\ Served("assets", r, l) =>
         LET F == DOMAIN l.positions
             V == ExactValue(F, r.user_id, l.targetDate)
             C == ExactBuyAmount(F, r.user_id, l.targetDate)
         IN  /\ r.current_value = V \div MicroPerUnit
             /\ r.current_pl = (V - C) \div MicroPerUnit
    /\ Served("byYear", r, l) =>
         \A k \in 1..Len(r.assets) :
           LET G == YearGroups(l, r.assets[k].year)
               V == SumFn([i \in G |->
                             LatestCents(l.rows[i].fund_id, l.targetDate)
                               * l.rows[i].total_quantity])
               C == SumFn([i \in G |->
                             ExactCost(YearTrades(r.user_id, l.rows[i].fund_id,
                                                  r.assets[k].year,
                                                  l.targetDate))])
           IN  /\ r.assets[k].current_value = V \div MicroPerUnit
               /\ r.assets[k].current_pl = (V - C) \div MicroPerUnit

C5_FloorOfExactAggregate == [][HandlerStep => C5Post(resp', local')]_vars

\* a position whose exact value is a whole number of currency units, bought
\* at the price it is valued at, is answered with a lower value and a loss
C5_WholeValueReturnedLower ==
    /\ Served("assets", resp, local)
    /\ LET F == DOMAIN local.positions
           V == ExactValue(F, resp.user_id, local.targetDate)
           C == ExactBuyAmount(F, resp.user_id, local.targetDate)
       IN  /\ F # {} /\ V = C /\ V % MicroPerUnit = 0
           /\ resp.current_value = V \div MicroPerUnit - 1
           /\ resp.current_pl = -1

\* C6: when the store fails while the position rows of an /assets or
\* /assets/byYear request are read (the aggregate query fails, a row cannot
\* be scanned, or the iteration ends with an error), the response is 500.
C6Post(r, l) ==
    (r.op \in {"assets", "byYear"}
       /\ l.fault.kind \in {"query", "scan", "iter"}) =>
      r.status = StatusInternalServerError

C6_StoreFailureIsError == [][HandlerStep => C6Post(resp', local')]_vars

\* a row could not be scanned and the response is a 200 whose totals come
\* from the other row alone
C6_PartialTotalsReturned ==
    /\ resp.op = "assets" /\ resp.status = StatusOK
    /\ local.fault.kind = "scan"
    /\ Len(local.rows) = 2
    /\ Cardinality(DOMAIN local.positions) = 1
    /\ resp.current_value > 0

\* C7: the year entries of a GET /{user_id}/assets/byYear response are
\* strictly descending by year: each entry's year is greater than the year
\* of every entry after it, so no year appears twice.
C7_YearsStrictlyDescending ==
    resp.op = "byYear" =>
      \A i, j \in 1..Len(resp.assets) :
        i < j => resp.assets[i].year > resp.assets[j].year

\* a response of two year entries that the map iteration met in ascending
\* order
C7_Witness ==
    /\ resp.op = "byYear" /\ resp.status = StatusOK
    /\ Len(resp.assets) = 2
    /\ local.order[1] < local.order[2]

\* the funds a user holds a positive priced quantity of among the trades
\* dated in a year, whose price resolves at the date
YearFunds(userID, year, date) ==
    {f \in Funds : /\ SumQty(YearTrades(userID, f, year, date)) > 0
                   /\ KnownPrices(f, date) # {}}

\* the exact value at a date of the quantities of the trades dated in a year
ExactYearValue(userID, year, date) ==
    SumFn([f \in YearFunds(userID, year, date) |->
             LatestCents(f, date) * SumQty(YearTrades(userID, f, year, date))])

\* the exact buy cost of those trades
ExactYearBuyAmount(userID, year, date) ==
    SumFn([f \in YearFunds(userID, year, date) |->
             ExactCost(YearTrades(userID, f, year, date))])

\* C8: the years of a fault-free /assets/byYear response are the years in
\* which some fund has a positive quantity of priced trades; the entry of
\* year Y has current_value = floor of the sum over those funds of today's
\* resolved price x the quantity traded in Y / 10000, and current_pl = floor
\* of that sum less the buy costs of the same trades; trades of other years
\* do not enter the figures of Y.
C8Post(r, l) ==
    Served("byYear", r, l) =>
      /\ {r.assets[k].year : k \in 1..Len(r.assets)} =
           {y \in {YearOf(t.trade_date) : t \in trades} :
              YearFunds(r.user_id, y, l.targetDate) # {}}
      /\ \A k \in 1..Len(r.assets) :
           LET y == r.assets[k].year
               V == ExactYearValue(r.user_id, y, l.targetDate)
               C == ExactYearBuyAmount(r.user_id, y, l.targetDate)
           IN  /\ r.assets[k].current_value = V \div MicroPerUnit
               /\ r.assets[k].current_pl = (V - C) \div MicroPerUnit

C8_YearFigures == [][HandlerStep => C8Post(resp', local')]_vars

\* a fund bought in two different years is answered as two year entries
C8_TwoCohortsOfOneFund ==
    /\ Served("byYear", resp, local)
    /\ Len(resp.assets) = 2
    /\ \E f \in Funds : \A i \in 1..Len(local.rows) : local.rows[i].fund_id = f

\* C9: GET /{user_id}/trades answers with the number of trade rows stored
\* for the user: every row of the user counts, whatever its date, quantity
\* or price, and no row of another user does.
C9Post(r) ==
    (r.op = "trades" /\ r.status = StatusOK) =>
      r.count = Cardinality(trades)
                  - Cardinality({t \in trades : t.user_id # r.user_id})

ScenarioTrade ==
    [user_id |-> "u1", fund_id |-> 1, quantity |-> 20000,
     trade_date |-> 20240110]

ScenarioPrice == [fund_id |-> 1, price |-> 10000, price_date |-> 20240110]

ScenarioLaterPrice == [fund_id |-> 1, price |-> 11000, price_date |-> 20240601]

\* C10: with only the scenario's trade and its price in the ledger, GET
\* /u1/assets?date=2024-01-10 answers current_value 200 and current_pl 0;
\* with the later price added, GET /u1/assets?date=2024-06-01 answers
\* current_value 220 and current_pl 20.
C10Post(r, l) ==
    (Served("assets", r, l) /\ r.user_id = "u1" /\ trades = {ScenarioTrade}) =>
      /\ (prices = {ScenarioPrice} /\ r.date = FormatDate(20240110)) =>
           r.current_value = 200 /\ r.current_pl = 0
      /\ (prices = {ScenarioPrice, ScenarioLaterPrice}
            /\ r.date = FormatDate(20240601)) =>
           r.current_value = 220 /\ r.current_pl = 20

C10_Scenario == [][HandlerStep => C10Post(resp', local')]_vars

\* the second request of the scenario has been answered
C10_Witness ==
    /\ Served("assets", resp, local) /\ resp.user_id = "u1"
    /\ trades = {ScenarioTrade}
    /\ prices = {ScenarioPrice, ScenarioLaterPrice}
    /\ resp.date = FormatDate(20240601)
    /\ resp.current_value = 220 /\ resp.current_pl = 20

\* the text is a calendar date written YYYY-MM-DD
IsCalendarDate(s) ==
    /\ Len(s) = 10
    /\ \A i \in 1..10 : IF i \in {5, 8} THEN s[i] = "-" ELSE IsDigit(s[i])
    /\ \E m \in 1..12 :
         /\ <<s[6], s[7]>> = <<Digits[(m \div 10) + 1], Digits[(m % 10) + 1]>>
         /\ \E d \in 1..DaysIn(1000 * DigitVal(s[1]) + 100 * DigitVal(s[2])
                               + 10 * DigitVal(s[3]) + DigitVal(s[4]), m) :
              <<s[9], s[10]>> = <<Digits[(d \div 10) + 1], Digits[(d % 10) + 1]>>

\* C11: a date parameter of GET /{user_id}/assets that is not empty and not
\* a calendar date written YYYY-MM-DD is answered with 400 and nothing else:
\* no query is made and no valuation is returned; a well-formed date D is
\* answered, unless the aggregate query fails, with 200 and the date field D.
C11Post(r, l) ==
    r.op = "assets" =>
      /\ (l.dateStr # <<>> /\ ~IsCalendarDate(l.dateStr)) =>
           /\ r = HttpError("assets", r.user_id, StatusBadRequest)
           /\ l = [NoLocals EXCEPT !.dateStr = l.dateStr]
      /\ (IsCalendarDate(l.dateStr) /\ l.fault.kind # "query") =>
           r.status = StatusOK /\ r.date = l.dateStr

C11_DateParameter == [][HandlerStep => C11Post(resp', local')]_vars

\* a date that is no calendar date (2023-02-29) has been answered with 400
\* while the user holds a position
C11_Witness ==
    /\ resp.op = "assets" /\ resp.status = StatusBadRequest
    /\ local.dateStr = <<"2", "0", "2", "3", "-", "0", "2", "-", "2", "9">>
    /\ \E f \in Funds : NetQuantity(resp.user_id, f, 20240601) > 0

\* the user holds no position as of the date: no trades, only unpriced
\* trades, only trades after the date, or only funds of net quantity <= 0
NoPositions(userID, date) ==
    \A f \in Funds : NetQuantity(userID, f, date) <= 0

\* C12: for a user with no positions, when no call to the store fails,
\* GET /{user_id}/assets answers 200 with current_value 0 and current_pl 0
\* and GET /{user_id}/assets/byYear answers 200 with no year entries.
C12Post(r, l) ==
    (l.fault = NoFault /\ NoPositions(r.user_id, l.targetDate)) =>
      /\ (r.op = "assets" /\ r.status # StatusBadRequest) =>
           r.status = StatusOK /\ r.current_value = 0 /\ r.current_pl = 0
      /\ r.op = "byYear" => r.status = StatusOK /\ r.assets = <<>>

C12_NoPositionsIsZero == [][HandlerStep => C12Post(resp', local')]_vars

\* a user with no positions is answered with a year entry
C12_YearEntryWithoutPosition ==
    /\ Served("byYear", resp, local)
    /\ NoPositions(resp.user_id, local.targetDate)
    /\ resp.assets # <<>>

(***************************************************************************)
(* Concurrent requests.  net/http runs every request on a goroutine of its *)
(* own; the handlers keep all they compute in local variables and share    *)
(* only the handle db.  The ledger does not change; a request advances one *)
(* call to the store at a time and other requests run in between.          *)
(***************************************************************************)
\* the date parameters of the concurrent /assets requests
ConcDateParams ==
    {<<>>, FormatDate(20240201),
     <<"2", "0", "2", "4", "-", "1", "3", "-", "0", "1">>}

\* the ledgers of MaxTrades trades and MaxPrices prices
ConcInit ==
    /\ trades \in {T \in SUBSET TradeRows :
                     /\ Cardinality(T) = MaxTrades
                     /\ \A t, u \in T : TradeKey(t) = TradeKey(u) => t = u}
    /\ prices \in {P \in SUBSET PriceRows : Cardinality(P) = MaxPrices}
    /\ resp = NoResponse
    /\ local = NoLocals
    /\ reqs = [id \in Requests |-> IdleRequest]
    /\ boot = Serving
    /\ imp = NoImport

\* a price cache that every request reads
SharedPriceCache(rq, id) ==
    [f \in UNION {DOMAIN rq[j].priceCache : j \in Requests} |->
       IF f \in DOMAIN rq[id].priceCache THEN rq[id].priceCache[f]
       ELSE rq[CHOOSE j \in Requests : f \in DOMAIN rq[j].priceCache]
              .priceCache[f]]

\* priceCache := make(map[int]float64): the cache of the request's own call
PriceCacheOf(rq, id) == rq[id].priceCache

\* getTradesCountHandler on goroutine id: one QueryRow
ServeTrades(id, userID) ==
    /\ reqs[id].pc = "idle"
    /\ reqs' = [reqs EXCEPT ![id] =
                  [IdleRequest EXCEPT
                     !.pc = "done", !.op = "trades", !.user_id = userID,
                     !.resp = TradesCountResult(trades, userID, NoFault)]]
    /\ UNCHANGED <<trades, prices, resp, local, boot, imp>>

\* getAssetsHandler on goroutine id up to the end of the rows.Next() loop
ServeAssets(id, userID, dateStr) ==
    /\ reqs[id].pc = "idle"
    /\ UNCHANGED <<trades, prices, resp, local, boot, imp>>
    /\ IF dateStr # <<>> /\ ~ParseDate(dateStr).ok
       THEN reqs' = [reqs EXCEPT ![id] =
                       [IdleRequest EXCEPT
                          !.pc = "done", !.op = "assets", !.user_id = userID,
                          !.dateStr = dateStr,
                          !.resp = HttpError("assets", userID,
                                             StatusBadRequest)]]
       ELSE \E now \in (IF dateStr # <<>> THEN {ParseDate(dateStr).date}
                                          ELSE Todays) :
            \E rowSeq \in Orders(PositionRows(trades, prices, userID, now)) :
            \E order \in Orders(DOMAIN PositionsMap(rowSeq, NoFault)) :
              reqs' = [reqs EXCEPT ![id] =
                         [IdleRequest EXCEPT
                            !.pc = "valuing", !.op = "assets",
                            !.user_id = userID, !.dateStr = dateStr,
                            !.now = now, !.rowSeq = rowSeq, !.i = 1,
                            !.positions = PositionsMap(rowSeq, NoFault),
                            !.order = order]]

\* one turn of for _, pos := range positions: the price query and the sums
ValueFund(id) ==
    /\ reqs[id].pc = "valuing"
    /\ reqs[id].i <= Len(reqs[id].order)
    /\ reqs' = [reqs EXCEPT ![id] =
                  [@ EXCEPT
                     !.i = @ + 1,
                     !.sums = ValuationLoop(<<reqs[id].order[reqs[id].i]>>,
                                            reqs[id].positions, prices,
                                            reqs[id].now, NoFault, @)]]
    /\ UNCHANGED <<trades, prices, resp, local, boot, imp>>

\* the end of getAssetsHandler: the two floors and the response
RespondAssets(id) ==
    /\ reqs[id].pc = "valuing"
    /\ reqs[id].i > Len(reqs[id].order)
    /\ reqs' = [reqs EXCEPT ![id] =
                  [@ EXCEPT
                     !.pc = "done",
                     !.resp = AssetData(reqs[id].user_id, reqs[id].now,
                                        reqs[id].sums)]]
    /\ UNCHANGED <<trades, prices, resp, local, boot, imp>>

\* getAssetsByYearHandler on goroutine id up to its aggregate query
ServeByYear(id, userID) ==
    /\ reqs[id].pc = "idle"
    /\ \E now \in Todays :
       \E rowSeq \in Orders(YearlyRows(trades, prices, userID, now)) :
         reqs' = [reqs EXCEPT ![id] =
                    [IdleRequest EXCEPT
                       !.pc = "rows", !.op = "byYear", !.user_id = userID,
                       !.now = now, !.rowSeq = rowSeq, !.i = 1]]
    /\ UNCHANGED <<trades, prices, resp, local, boot, imp>>

\* one turn of for rows.Next(): the cache lookup, the price query, the sums
ReadYearRow(id) ==
    /\ reqs[id].pc = "rows"
    /\ reqs[id].i <= Len(reqs[id].rowSeq)
    /\ LET st == YearlyLoop(<<reqs[id].rowSeq[reqs[id].i]>>, 1, prices,
                            reqs[id].now, NoFault,
                            [yearlySummary |-> reqs[id].yearlySummary,
                             priceCache |-> PriceCacheOf(reqs, id),
                             priceFailed |-> FALSE])
       IN  reqs' = [reqs EXCEPT ![id] =
                      [@ EXCEPT !.i = @ + 1,
                                !.yearlySummary = st.yearlySummary,
                                !.priceCache = st.priceCache]]
    /\ UNCHANGED <<trades, prices, resp, local, boot, imp>>

\* the end of getAssetsByYearHandler: the year entries, sorted, and the response
RespondByYear(id) ==
    /\ reqs[id].pc = "rows"
    /\ reqs[id].i > Len(reqs[id].rowSeq)
    /\ \E order \in Orders(DOMAIN reqs[id].yearlySummary) :
         reqs' = [reqs EXCEPT ![id] =
                    [@ EXCEPT
                       !.pc = "done", !.order = order,
                       !.resp = AssetsByYearResponse(
                                  reqs[id].user_id, reqs[id].now,
                                  AppendYears(order, reqs[id].yearlySummary))]]
    /\ UNCHANGED <<trades, prices, resp, local, boot, imp>>

\* the response has been written and the goroutine ends
Complete(id) ==
    /\ reqs[id].pc = "done"
    /\ reqs' = [reqs EXCEPT ![id] = IdleRequest]
    /\ UNCHANGED <<trades, prices, resp, local, boot, imp>>

ConcNext ==
    \/ \E id \in Requests, userID \in Users : ServeTrades(id, userID)
    \/ \E id \in Requests, userID \in Users, dateStr \in ConcDateParams :
         ServeAssets(id, userID, dateStr)
    \/ \E id \in Requests : ValueFund(id)
    \/ \E id \in Requests : RespondAssets(id)
    \/ \E id \in Requests, userID \in Users : ServeByYear(id, userID)
    \/ \E id \in Requests : ReadYearRow(id)
    \/ \E id \in Requests : RespondByYear(id)
    \/ \E id \in Requests : Complete(id)

ConcSpec == ConcInit /\ [][ConcNext]_vars

\* the response of the same request when its handler runs alone
Alone(rq) ==
    IF rq.op = "trades" THEN TradesCountResult(trades, rq.user_id, NoFault)
    ELSE IF rq.op = "byYear"
    THEN AssetsByYearResult(prices, rq.user_id, rq.now, rq.rowSeq, NoFault,
                            rq.order).resp
    ELSE IF rq.dateStr # <<>> /\ ~ParseDate(rq.dateStr).ok
    THEN HttpError("assets", rq.user_id, StatusBadRequest)
    ELSE AssetsResult(trades, prices, rq.user_id, rq.now, rq.rowSeq, NoFault,
                      rq.order).resp

\* C13: however the steps of concurrently served /trades, /assets and
\* /assets/byYear requests interleave over an unchanging ledger, the
\* response of each request is the response its handler gives when it runs
\* alone, and the price cache and year sums of a byYear request in progress
\* are those its own rows produce: no other request has read or written them.
C13_RequestsIndependent ==
    \A id \in Requests :
      /\ reqs[id].pc = "done" => reqs[id].resp = Alone(reqs[id])
      /\ reqs[id].pc = "rows" =>
           LET st == YearlyState(prices, reqs[id].now,
                                 SubSeq(reqs[id].rowSeq, 1, reqs[id].i - 1),
                                 NoFault)
           IN  /\ reqs[id].priceCache = st.priceCache
               /\ reqs[id].yearlySummary = st.yearlySummary

\* a byYear request has been answered while another byYear request, in the
\* middle of its rows, holds a different price of the same fund in its cache
C13_Witness ==
    \E id, other \in Requests :
      /\ reqs[id].pc = "done" /\ reqs[id].op = "byYear"
      /\ reqs[id].resp.assets # <<>>
      /\ reqs[other].pc = "rows" /\ reqs[other].i > 1
      /\ \E f \in DOMAIN reqs[id].priceCache \cap DOMAIN reqs[other].priceCache :
           reqs[id].priceCache[f] # reqs[other].priceCache[f]

(***************************************************************************)
(* The order of summing and flooring in the profit and loss of /assets.    *)
(***************************************************************************)
\* the sum over a set of funds of the floor of each fund's exact profit/loss
SumOfFlooredPL(F, userID, date) ==
    SumFn([f \in F |->
             (LatestCents(f, date) * NetQuantity(userID, f, date)
                - ExactCost(PricedTrades(userID, f, date))) \div MicroPerUnit])

\* C14: the current_pl of an /assets response is one floor, applied to the
\* difference between the sum of the exact values and the sum of the exact
\* buy costs of the included funds; where the sum of the per-fund floors of
\* the profit/loss is another number, current_pl is not that number.
C14Post(r, l) ==
    (r.op = "assets" /\ r.status = StatusOK /\ l.fault.kind \in {"none", "price"})
      =>
      /\ r.current_pl =
           (ExactValue(Included(l), r.user_id, l.targetDate)
              - ExactBuyAmount(Included(l), r.user_id, l.targetDate))
             \div MicroPerUnit
      /\ r.current_pl >= SumOfFlooredPL(Included(l), r.user_id, l.targetDate)

C14_OneFloorOfTheDifference == [][HandlerStep => C14Post(resp', local')]_vars

\* the exact sums of value and buy cost are equal and current_pl is negative
C14_EqualSumsAnsweredAsLoss ==
    /\ Served("assets", resp, local)
    /\ DOMAIN local.positions # {}
    /\ ExactValue(DOMAIN local.positions, resp.user_id, local.targetDate)
         = ExactBuyAmount(DOMAIN local.positions, resp.user_id,
                          local.targetDate)
    /\ resp.current_pl < 0

(***************************************************************************)
(* Startup.                                                                *)
(***************************************************************************)
\* the retry loop and what follows it, as far as states tell
StartupSafe ==
    /\ boot.pings <= DB_RETRY_ATTEMPTS
    /\ (boot.pc = "ping" /\ boot.pings > 0) => (boot.err /\ ~boot.alive)
    /\ (boot.pc \in {"setup", "serving"} \/ resp # NoResponse) => boot.alive
    /\ (boot.pings = DB_RETRY_ATTEMPTS /\ ~boot.alive) => boot.pc = "pinged"
    /\ (boot.pc = "exited" /\ ~boot.alive) => (boot.fatal /\ resp = NoResponse)

\* the steps of startup: no db.Ping after a successful one, and after
\* DB_RETRY_ATTEMPTS failed ones the next step of main is the fatal exit
StartupStep ==
    /\ boot'.pings > boot.pings => ~boot.alive
    /\ (boot.pc = "pinged" /\ ~boot.alive /\ boot' # boot) =>
         (boot'.pc = "exited" /\ boot'.fatal)
    /\ (boot'.pc = "serving" /\ boot.pc # "serving") => boot.alive

\* C16: at startup the server calls db.Ping at most 10 times and not again
\* after a successful call; it sets up the tables and serves requests only
\* after a successful db.Ping; when all 10 calls fail the process ends
\* fatally without having served a request; and startup always ends:
\* eventually the process is serving or has exited.
C16_Startup ==
    /\ []StartupSafe
    /\ [][StartupStep]_vars
    /\ <>(boot.pc \in {"serving", "exited"})

\* the retry loop has ended with its tenth db.Ping, the first to succeed
C16_Witness ==
    /\ boot.pc = "pinged" /\ boot.pings = DB_RETRY_ATTEMPTS /\ boot.alive
    /\ boot.i = DB_RETRY_ATTEMPTS - 1

(***************************************************************************)
(* The table import (db_init).  main imports trade_history.csv into        *)
(* trade_histories and then reference_prices.csv into reference_prices,    *)
(* each file in a transaction of its own.  A file is the sequence of its   *)
(* lines as csv.Reader returns them, the header line first; a field is     *)
(* the tuple of its characters.  The variables trades and prices hold the  *)
(* committed rows; imp.tx holds the rows of the open transaction; imp.err  *)
(* is the variable err of the function body, which the deferred function   *)
(* tests; imp.ret is the value the function returns.                       *)
(***************************************************************************)
\* the longest file, in lines after the header
MaxRecords == 2

\* the decimal digits of a natural number
RECURSIVE Itoa(_)
Itoa(n) == IF n < 10 THEN <<Digits[n + 1]>>
           ELSE Itoa(n \div 10) \o <<Digits[(n % 10) + 1]>>

\* the value of a tuple of digits
RECURSIVE DigitsVal(_)
DigitsVal(s) ==
    IF s = <<>> THEN 0
    ELSE 10 * DigitsVal(SubSeq(s, 1, Len(s) - 1)) + DigitVal(s[Len(s)])

\* strconv.Atoi: an optional sign and one digit or more
Atoi(s) ==
    LET signed == s # <<>> /\ s[1] \in {"-", "+"}
        body   == IF signed THEN Tail(s) ELSE s
    IN  IF body # <<>> /\ \A k \in 1..Len(body) : IsDigit(body[k])
        THEN [ok |-> TRUE,
              n |-> IF signed /\ s[1] = "-" THEN 0 - DigitsVal(body)
                    ELSE DigitsVal(body)]
        ELSE [ok |-> FALSE, n |-> 0]

\* the DECIMAL(10, 2) value, in hundredths, of a text with two decimals;
\* any other text is rejected by the INSERT
DecimalCents(s) ==
    IF /\ Len(s) >= 4
       /\ s[Len(s) - 2] = "."
       /\ \A k \in 1..Len(s) : k # Len(s) - 2 => IsDigit(s[k])
    THEN [ok |-> TRUE,
          n |-> 100 * DigitsVal(SubSeq(s, 1, Len(s) - 3))
                  + DigitsVal(SubSeq(s, Len(s) - 1, Len(s)))]
    ELSE [ok |-> FALSE, n |-> 0]

\* a line as reader.Read() returns it: its fields, or an error
Line(fields) == [err |-> FALSE, fields |-> fields]

\* the header line of either file
Header == Line(<<"header">>)

\* the line of a trade
TradeLine(t) ==
    Line(<<t.user_id,
           IF t.fund_id < 0 THEN <<"-">> \o Itoa(0 - t.fund_id)
           ELSE Itoa(t.fund_id),
           IF t.quantity < 0 THEN <<"-">> \o Itoa(0 - t.quantity)
           ELSE Itoa(t.quantity),
           FormatDate(t.trade_date)>>)

\* the line of a price
PriceLine(p) ==
    Line(<<Itoa(p.fund_id),
           Itoa(p.price \div 100) \o <<".">>
             \o <<Digits[((p.price \div 10) % 10) + 1],
                  Digits[(p.price % 10) + 1]>>,
           FormatDate(p.price_date)>>)

\* the lines of trade_history.csv: three trades, two of them with the same
\* primary key, a line of three fields, a fund_id and a date that do not
\* parse, and a line csv.Reader rejects
TradeLines ==
    {TradeLine(t) : t \in {r \in TradeRows :
                             r.user_id = "u1" /\ r.trade_date >= 20240110}}
      \cup {Line(<<"u1", <<"1">>, <<"5">>>>),
            Line(<<"u1", <<"x">>, <<"5">>, FormatDate(20240110)>>),
            Line(<<"u1", <<"1">>, <<"5">>,
                   <<"2", "0", "2", "3", "-", "0", "2", "-", "2", "9">>>>),
            [err |-> TRUE, fields |-> <<>>]}

\* the lines of reference_prices.csv: two prices, a line of two fields and a
\* quantity-like price without decimals
PriceLines ==
    {PriceLine(p) : p \in {r \in PriceRows : r.fund_id = 1}}
      \cup {Line(<<<<"1">>, <<"1", "0", "0">>>>),
            Line(<<<<"2">>, <<"a", "b", "c">>, FormatDate(20240110)>>)}

\* the sequences of at most n elements of a set
RECURSIVE SeqsUpTo(_, _)
SeqsUpTo(S, n) ==
    IF n = 0 THEN {<<>>}
    ELSE LET shorter == SeqsUpTo(S, n - 1)
         IN  shorter \cup {Append(q, x) : q \in shorter, x \in S}

\* the files at a path: an empty file, or a header and at most MaxRecords
\* lines
Files(table) ==
    {<<>>} \cup
    {<<Header>> \o q :
       q \in SeqsUpTo(IF table = "trade_histories" THEN TradeLines
                      ELSE PriceLines, MaxRecords)}

ImportInit ==
    /\ trades = {}
    /\ prices = {}
    /\ resp = NoResponse
    /\ local = NoLocals
    /\ reqs = [id \in Requests |-> IdleRequest]
    /\ boot = Booting
    /\ imp = [NoImport EXCEPT !.pc = "open", !.table = "trade_histories"]

\* the rows committed to the table the import in progress writes
Committed == IF imp.table = "trade_histories" THEN trades ELSE prices

\* file, err := os.Open(csvFilePath): the file at the path, or an error
OpenFile ==
    /\ imp.pc = "open"
    /\ \/ \E file \in Files(imp.table) :
            imp' = [imp EXCEPT !.pc = "header", !.file = file]
       \/ imp' = [imp EXCEPT !.pc = "returned", !.err = TRUE, !.ret = "error"]
    /\ UNCHANGED <<trades, prices, resp, local, reqs, boot>>

\* _, err = reader.Read(): the header line; the function returns an error
\* when there is none
ReadHeader ==
    /\ imp.pc = "header"
    /\ imp' = IF imp.file = <<>> \/ imp.file[1].err
              THEN [imp EXCEPT !.pc = "returned", !.err = TRUE,
                               !.ret = "error"]
              ELSE [imp EXCEPT !.pc = "begin", !.n = 1]
    /\ UNCHANGED <<trades, prices, resp, local, reqs, boot>>

\* tx, err := db.Begin(), and the deferred function is registered
Begin(ok) ==
    /\ imp.pc = "begin"
    /\ imp' = IF ok THEN [imp EXCEPT !.pc = "prepare", !.tx = {}]
              ELSE [imp EXCEPT !.pc = "returned", !.err = TRUE,
                               !.ret = "error"]
    /\ UNCHANGED <<trades, prices, resp, local, reqs, boot>>

\* stmt, err := tx.Prepare(...): this err is the variable of the function
\* body
Prepare(ok) ==
    /\ imp.pc = "prepare"
    /\ imp' = IF ok THEN [imp EXCEPT !.pc = "loop"]
              ELSE [imp EXCEPT !.pc = "deferred", !.err = TRUE,
                               !.ret = "error"]
    /\ UNCHANGED <<trades, prices, resp, local, reqs, boot>>

\* the conversions of the fields of a line of trade_history.csv
TradeOf(fields) ==
    IF Len(fields) # 4 THEN [ok |-> FALSE, row |-> <<>>]
    ELSE IF ~Atoi(fields[2]).ok \/ ~Atoi(fields[3]).ok
              \/ ~ParseDate(fields[4]).ok
    THEN [ok |-> FALSE, row |-> <<>>]
    ELSE [ok |-> TRUE,
          row |-> [user_id |-> fields[1], fund_id |-> Atoi(fields[2]).n,
                   quantity |-> Atoi(fields[3]).n,
                   trade_date |-> ParseDate(fields[4]).date]]

\* the conversions of the fields of a line of reference_prices.csv; the
\* price goes to the INSERT as text
PriceOf(fields) ==
    IF Len(fields) # 3 THEN [ok |-> FALSE, row |-> <<>>]
    ELSE IF ~Atoi(fields[1]).ok \/ ~ParseDate(fields[3]).ok
              \/ ~DecimalCents(fields[2]).ok
    THEN [ok |-> FALSE, row |-> <<>>]
    ELSE [ok |-> TRUE,
          row |-> [fund_id |-> Atoi(fields[1]).n,
                   price |-> DecimalCents(fields[2]).n,
                   price_date |-> ParseDate(fields[3]).date]]

\* stmt.Exec inside the transaction: a row whose primary key is in the table
\* or in the transaction is rejected
Accepted(row) ==
    IF imp.table = "trade_histories"
    THEN \A t \in trades \cup imp.tx : TradeKey(t) # TradeKey(row)
    ELSE \A p \in prices \cup imp.tx : PriceKey(p) # PriceKey(row)

\* one turn of the for loop.  record, err := reader.Read() declares an err
\* of the loop body: the error returns of the loop leave the err of the
\* function body as it was, nil.
ReadRecord ==
    /\ imp.pc = "loop"
    /\ UNCHANGED <<trades, prices, resp, local, reqs, boot>>
    /\ IF imp.n = Len(imp.file)
       THEN \* io.EOF: break, return nil
            imp' = [imp EXCEPT !.pc = "deferred", !.ret = "nil"]
       ELSE LET line == imp.file[imp.n + 1]
                conv == IF line.err THEN [ok |-> FALSE, row |-> <<>>]
                        ELSE IF imp.table = "trade_histories"
                        THEN TradeOf(line.fields)
                        ELSE PriceOf(line.fields)
            IN  IF conv.ok /\ Accepted(conv.row)
                THEN imp' = [imp EXCEPT !.n = @ + 1,
                                        !.tx = @ \cup {conv.row}]
                ELSE imp' = [imp EXCEPT !.pc = "deferred", !.ret = "error"]

\* the deferred function: tx.Rollback() when err != nil, else
\* err = tx.Commit(), which may fail; the value returned is already set
Deferred(ok) ==
    /\ imp.pc = "deferred"
    /\ UNCHANGED <<resp, local, reqs, boot>>
    /\ IF imp.err
       THEN /\ imp' = [imp EXCEPT !.pc = "returned", !.tx = {}]
            /\ UNCHANGED <<trades, prices>>
       ELSE /\ imp' = [imp EXCEPT !.pc = "returned", !.tx = {},
                                  !.err = ~ok]
            /\ IF ok /\ imp.table = "trade_histories"
               THEN trades' = trades \cup imp.tx /\ UNCHANGED prices
               ELSE IF ok
               THEN prices' = prices \cup imp.tx /\ UNCHANGED trades
               ELSE UNCHANGED <<trades, prices>>

\* main after an import: log.Fatalf on an error, else the next file, else
\* the end of main
Continue ==
    /\ imp.pc = "returned"
    /\ imp' = IF imp.ret = "error" THEN [imp EXCEPT !.pc = "exited"]
              ELSE IF imp.table = "trade_histories"
              THEN [NoImport EXCEPT !.pc = "open",
                                    !.table = "reference_prices"]
              ELSE [imp EXCEPT !.pc = "done"]
    /\ UNCHANGED <<trades, prices, resp, local, reqs, boot>>

ImportNext ==
    \/ OpenFile
    \/ ReadHeader
    \/ \E ok \in BOOLEAN : Begin(ok)
    \/ \E ok \in BOOLEAN : Prepare(ok)
    \/ ReadRecord
    \/ \E ok \in BOOLEAN : Deferred(ok)
    \/ Continue

ImportSpec == ImportInit /\ [][ImportNext]_vars

\* C15: when importTradeHistories or importReferencePrices has returned an
\* error, none of the rows of its file are in the table (the tables are
\* empty before the import): rows are persisted only when the function
\* returns nil.
C15_ImportAllOrNothing ==
    (imp.pc = "returned" /\ imp.ret = "error") => Committed = {}

\* the import has returned an error for the second line after the header
\* and the row of the first line is in the table
C15_PartialFileCommitted ==
    /\ imp.pc = "returned" /\ imp.ret = "error"
    /\ imp.n = 2 /\ Len(imp.file) >= 3
    /\ Cardinality(Committed) = 1

(***************************************************************************)
(* Valuation as of a date and later growth of the ledger.                  *)
(***************************************************************************)
\* the dates a request can name
ExplicitDates ==
    {ParseDate(s).date : s \in {d \in DateParams : d # <<>> /\ ParseDate(d).ok}}

\* the responses of GET /{user_id}/assets?date=D over tables T and P, the
\* store and the map free to order the rows
AssetsResponses(T, P, userID, date) ==
    UNION { { AssetsResult(T, P, userID, date, rowSeq, NoFault, order).resp :
              order \in Orders(DOMAIN PositionsMap(rowSeq, NoFault)) } :
            rowSeq \in Orders(PositionRows(T, P, userID, date)) }

\* tables T2, P2 are T, P and rows dated after D
GrownAfter(T, P, T2, P2, date) ==
    /\ T \subseteq T2 /\ P \subseteq P2
    /\ \A t \in T2 \ T : t.trade_date > date
    /\ \A p \in P2 \ P : p.price_date > date

C17Step(T, P, T2, P2) ==
    \A userID \in Users, date \in ExplicitDates :
      GrownAfter(T, P, T2, P2, date) =>
        AssetsResponses(T2, P2, userID, date)
          = AssetsResponses(T, P, userID, date)

\* C17: for every user and explicit date D, a step that appends trades
\* dated after D or prices dated after D to the ledger of a serving server
\* leaves the response of GET /{user_id}/assets?date=D as it was.
C17_LaterRowsLeaveValuation ==
    [][(boot.pc = "serving" /\ resp = NoResponse
          /\ (trades' # trades \/ prices' # prices))
         => C17Step(trades, prices, trades', prices')]_vars

\* a valuation as of D is answered from a ledger that holds, for a fund the
\* user has a position in at D, a priced trade and a price dated after D
C17_Witness ==
    /\ Served("assets", resp, local)
    /\ local.dateStr # <<>>
    /\ resp.current_value > 0
    /\ \E t \in trades :
         /\ t.user_id = resp.user_id /\ t.trade_date > local.targetDate
         /\ t.fund_id \in DOMAIN local.positions
         /\ Priced(t)
         /\ \E p \in prices :
              p.fund_id = t.fund_id /\ p.price_date > local.targetDate

(***************************************************************************)
(* The year entries of /assets/byYear against the total of /assets.        *)
(***************************************************************************)
\* the sum of a field over the year entries of a byYear response
RECURSIVE SumEntries(_, _)
SumEntries(assets, field) ==
    IF assets = <<>> THEN 0
    ELSE Head(assets)[field] + SumEntries(Tail(assets), field)

\* whether a sum of n floors is at most a total and short of it by less
\* than n (by nothing when n = 0)
WithinFlooring(sum, total, n) ==
    sum <= total /\ (total - sum < n \/ (n = 0 /\ total = sum))

\* the trades of the year comparison: the purchases of the trade file and a
\* second purchase of fund 2, in 2024
YearTradeRows ==
    {t \in TradeRows : t.quantity > 0}
      \cup {[user_id |-> "u1", fund_id |-> 2, quantity |-> 200000,
             trade_date |-> 20240110]}

\* the prices of the year comparison: fund 2 is still at 2.30 in 2024
YearPriceRows ==
    PriceRows \cup {[fund_id |-> 2, price |-> 230, price_date |-> 20240110]}

\* a serving server over a ledger of purchases
YearInit ==
    /\ trades \in {T \in SUBSET YearTradeRows :
                     /\ Cardinality(T) <= MaxTrades
                     /\ \A t, u \in T : TradeKey(t) = TradeKey(u) => t = u}
    /\ prices \in {P \in SUBSET YearPriceRows :
                     /\ Cardinality(P) <= MaxPrices
                     /\ \A p, q \in P : PriceKey(p) = PriceKey(q) => p = q}
    /\ resp = NoResponse
    /\ local = NoLocals
    /\ reqs = [id \in Requests |-> IdleRequest]
    /\ boot = Serving
    /\ imp = NoImport

\* valuations as of today, in total and by year
YearNext ==
    \/ \E userID \in Users : getAssetsHandler(userID, <<>>)
    \/ \E userID \in Users : getAssetsByYearHandler(userID)
    \/ Deliver

YearSpec == YearInit /\ [][YearNext]_vars

\* C18: when every trade of a user has a positive quantity, the
\* current_value fields of the year entries of /assets/byYear sum to at most
\* the current_value of /assets as of the same day and fall short of it by
\* less than the number of year entries; likewise the current_pl fields.
C18Post(r, l) ==
    (/\ Served("byYear", r, l)
     /\ \A t \in trades : t.user_id = r.user_id => t.quantity > 0)
      =>
      \A a \in AssetsResponses(trades, prices, r.user_id, l.targetDate) :
        /\ WithinFlooring(SumEntries(r.assets, "current_value"),
                          a.current_value, Len(r.assets))
        /\ WithinFlooring(SumEntries(r.assets, "current_pl"),
                          a.current_pl, Len(r.assets))

C18_YearEntriesSumToTotal == [][HandlerStep => C18Post(resp', local')]_vars

\* the two year entries of a fund bought in 2023 and in 2024 sum to 67 and
\* the total the same day is 69
C18_TwoEntriesTwoShort ==
    /\ Served("byYear", resp, local)
    /\ \A t \in trades : t.user_id = resp.user_id => t.quantity > 0
    /\ Len(resp.assets) = 2
    /\ \E a \in AssetsResponses(trades, prices, resp.user_id,
                                local.targetDate) :
         a.current_value - SumEntries(resp.assets, "current_value") = 2
====
